---- MODULE Spec2Model ----
(***************************************************************************)
(* The mediator state machine of raiden/transfer/mediated_transfer/        *)
(* mediator.py: state_transition(state, state_change) and the handlers it  *)
(* dispatches to, as operators over immutable values.  The Python code     *)
(* mutates the state object in place; every operator here returns the      *)
(* mutated value.  An exception raised by the code (a failed assert, an    *)
(* unbound local, an attribute of None) is the outcome "raised".           *)
(***************************************************************************)
EXTENDS Integers, Sequences, FiniteSets, TLC

VARIABLES
    state,      \* the MediatorState held by the driver, or NoState
    events,     \* Iteration.events of the last state_transition call
    outcome,    \* "init" | "returned" | "raised": how the last call ended
    change      \* the state_change given to the last call

vars == <<state, events, outcome, change>>

----------------------------------------------------------------------------
(* Bounds of the model *)

MaxBlock == 8
MaxRefunds == 2
\* the longest list of routes and the largest timeout_blocks given to
\* next_route on its own
MaxRouteList == 3
MaxTimeout == 4

----------------------------------------------------------------------------
(* Values *)

\* Python None, for the optional fields that hold strings (secret)
None == "None"

\* Python None for Route.close_block, which otherwise holds a block number
NoBlock == -1

\* state_transition's `state is None`
NoState == [is_none |-> TRUE]

TRANSIT_BLOCKS == 2

STATE_SECRET_KNOWN ==
    { "payee_secret_revealed", "payee_contract_withdraw", "payee_balance_proof",
      "payer_secret_revealed", "payer_contract_withdraw", "payer_balance_proof" }

STATE_TRANSFER_PAYED ==
    { "payee_contract_withdraw", "payee_balance_proof",
      "payer_contract_withdraw", "payer_balance_proof" }

STATE_TRANSFER_FINAL ==
    { "payee_contract_withdraw", "payee_balance_proof", "payee_expired",
      "payer_contract_withdraw", "payer_balance_proof", "payer_expired" }

\* raiden.utils.sha3 on the secrets of the model: a fixed injective digest
Secrets == {"s1", "s2"}

sha3(secret) == IF secret = "s1" THEN "h1" ELSE IF secret = "s2" THEN "h2" ELSE "h?"

\* sha3(None) raises (the hash takes bytes)
sha3_raises(secret) == secret = None

LockedTransferState(identifier, amount, token, target, expiration, hashlock, secret) ==
    [ identifier |-> identifier, amount |-> amount, token |-> token,
      target |-> target, expiration |-> expiration, hashlock |-> hashlock,
      secret |-> secret ]

RouteState(node_address, channel_address, available_balance, settle_timeout, reveal_timeout, close_block) ==
    [ node_address |-> node_address, channel_address |-> channel_address,
      available_balance |-> available_balance, settle_timeout |-> settle_timeout,
      reveal_timeout |-> reveal_timeout, close_block |-> close_block ]

RoutesState(available_routes) ==
    [ available_routes |-> available_routes, ignored_routes |-> << >>,
      refund_routes |-> << >> ]

MediationPairState(payer_route, payer_transfer, payee_route, payee_transfer) ==
    [ payer_route |-> payer_route, payer_transfer |-> payer_transfer,
      payee_route |-> payee_route, payee_transfer |-> payee_transfer,
      payer_state |-> "payer_pending", payee_state |-> "payee_pending" ]

MediatorState(our_address, routes, block_number, hashlock) ==
    [ our_address |-> our_address, routes |-> routes,
      block_number |-> block_number, hashlock |-> hashlock,
      secret |-> None, transfers_pair |-> << >> ]

\* pair.payee_transfer.state / pair.payer_transfer.state as the mediator reads
\* them: the sub-state of that side of the pair
payee_transfer_state(pair) == pair.payee_state

payer_transfer_state(pair) == pair.payer_state

Iteration(new_state, evs) == [new_state |-> new_state, events |-> evs, raised |-> FALSE]

\* an exception leaves the state object as mutated so far and returns nothing
Raised(mutated_state) == [new_state |-> mutated_state, events |-> << >>, raised |-> TRUE]

----------------------------------------------------------------------------
(* Events *)

mediatedtransfer(transfer, recipient) ==
    [type |-> "SendMediatedTransfer", transfer |-> transfer, recipient |-> recipient]

SendRefundTransfer(identifier, token, amount, hashlock, expiration, recipient) ==
    [ type |-> "SendRefundTransfer", identifier |-> identifier, token |-> token,
      amount |-> amount, hashlock |-> hashlock, expiration |-> expiration,
      recipient |-> recipient ]

SendRevealSecret(identifier, secret, recipient, sender) ==
    [ type |-> "SendRevealSecret", identifier |-> identifier, secret |-> secret,
      recipient |-> recipient, sender |-> sender ]

SendBalanceProof(identifier, recipient) ==
    [type |-> "SendBalanceProof", identifier |-> identifier, recipient |-> recipient]

ContractSendWithdraw(transfer, channel_address) ==
    [ type |-> "ContractSendWithdraw", transfer |-> transfer,
      channel_address |-> channel_address ]

----------------------------------------------------------------------------
(* Predicates *)

is_lock_valid(block_number, transfer) == block_number <= transfer.expiration

is_safe_to_wait(block_number, transfer, reveal_timeout) ==
    block_number < transfer.expiration - reveal_timeout

\* is_valid_refund accepting an expiration equal to the original's
is_valid_refund_loose(original_transfer, refund_sender, refund_transfer) ==
    IF refund_sender = original_transfer.target
    THEN FALSE
    ELSE /\ original_transfer.identifier = refund_transfer.identifier
         /\ original_transfer.amount = refund_transfer.amount
         /\ original_transfer.hashlock = refund_transfer.hashlock
         /\ original_transfer.target = refund_transfer.target
         /\ original_transfer.expiration >= refund_transfer.expiration

\* is_valid_refund comparing neither the amount nor the identifier
is_valid_refund_any_amount(original_transfer, refund_sender, refund_transfer) ==
    IF refund_sender = original_transfer.target
    THEN FALSE
    ELSE /\ original_transfer.hashlock = refund_transfer.hashlock
         /\ original_transfer.target = refund_transfer.target
         /\ original_transfer.expiration > refund_transfer.expiration

is_valid_refund(original_transfer, refund_sender, refund_transfer) ==
    IF refund_sender = original_transfer.target
    THEN FALSE
    ELSE /\ original_transfer.identifier = refund_transfer.identifier
         /\ original_transfer.amount = refund_transfer.amount
         /\ original_transfer.hashlock = refund_transfer.hashlock
         /\ original_transfer.target = refund_transfer.target
         /\ original_transfer.expiration > refund_transfer.expiration

is_pending(pair) ==
    \/ pair.payee_state \notin STATE_TRANSFER_FINAL
    \/ pair.payer_state \notin STATE_TRANSFER_FINAL

\* the indexes, in list order, of the pairs that have not reached a final state
RECURSIVE pending_from(_, _)
pending_from(transfers_pair, i) ==
    IF i > Len(transfers_pair) THEN << >>
    ELSE IF is_pending(transfers_pair[i])
         THEN <<i>> \o pending_from(transfers_pair, i + 1)
         ELSE pending_from(transfers_pair, i + 1)

get_pending_transfer_pairs(transfers_pair) == pending_from(transfers_pair, 1)

Min(a, b) == IF a <= b THEN a ELSE b

\* the assert of get_timeout_blocks fails
get_timeout_blocks_raises(payer_route, block_number) ==
    /\ payer_route.close_block # NoBlock
    /\ ~(block_number >= payer_route.close_block)

\* get_timeout_blocks without the TRANSIT_BLOCKS margin
get_timeout_blocks_nomargin(payer_route, payer_transfer, block_number) ==
    LET blocks_until_settlement ==
            IF payer_route.close_block # NoBlock
            THEN payer_route.settle_timeout - (block_number - payer_route.close_block)
            ELSE payer_route.settle_timeout
    IN  Min(blocks_until_settlement, payer_transfer.expiration - block_number)

\* get_timeout_blocks without the blocks elapsed since the channel closed
get_timeout_blocks_unreduced(payer_route, payer_transfer, block_number) ==
    Min(payer_route.settle_timeout, payer_transfer.expiration - block_number)
        - TRANSIT_BLOCKS

get_timeout_blocks(payer_route, payer_transfer, block_number) ==
    LET blocks_until_settlement ==
            IF payer_route.close_block # NoBlock
            THEN payer_route.settle_timeout - (block_number - payer_route.close_block)
            ELSE payer_route.settle_timeout
        safe_payer_timeout ==
            Min(blocks_until_settlement, payer_transfer.expiration - block_number)
    IN  safe_payer_timeout - TRANSIT_BLOCKS

\* all_finalized looking at the payee sides only
all_payees_finalized(st) ==
    \A i \in 1..Len(st.transfers_pair) :
        st.transfers_pair[i].payee_state \in STATE_TRANSFER_FINAL

all_finalized(st) ==
    \A i \in 1..Len(st.transfers_pair) :
        /\ st.transfers_pair[i].payee_state \in STATE_TRANSFER_FINAL
        /\ st.transfers_pair[i].payer_state \in STATE_TRANSFER_FINAL

clear_if_finalized(iteration) ==
    IF all_finalized(iteration.new_state)
    THEN Iteration(NoState, iteration.events)
    ELSE iteration

----------------------------------------------------------------------------
(* Route selection and pair construction *)

NoRoute == [is_none |-> TRUE]

NoPair == [is_none |-> TRUE]

\* route_is_usable accepting a lock timeout of zero
route_is_usable_loose(route, timeout_blocks, transfer_amount) ==
    LET lock_timeout == timeout_blocks - route.reveal_timeout
        enough_balance == route.available_balance >= transfer_amount
    IN  enough_balance /\ lock_timeout >= 0

route_is_usable(route, timeout_blocks, transfer_amount) ==
    LET lock_timeout == timeout_blocks - route.reveal_timeout
        enough_balance == route.available_balance >= transfer_amount
    IN  enough_balance /\ lock_timeout > 0

\* next_route leaving the route it returns in available_routes
RECURSIVE next_route_keeping(_, _, _)
next_route_keeping(routes_state, timeout_blocks, transfer_amount) ==
    IF routes_state.available_routes = << >>
    THEN [route |-> NoRoute, routes_state |-> routes_state]
    ELSE IF route_is_usable(Head(routes_state.available_routes),
                            timeout_blocks, transfer_amount)
    THEN [ route |-> Head(routes_state.available_routes),
           routes_state |-> routes_state ]
    ELSE next_route_keeping(
             [routes_state EXCEPT
                 !.available_routes = Tail(@),
                 !.ignored_routes = Append(@, Head(routes_state.available_routes))],
             timeout_blocks, transfer_amount)

\* the route returned (or NoRoute) and the routes_state as the loop leaves it
RECURSIVE next_route(_, _, _)
next_route(routes_state, timeout_blocks, transfer_amount) ==
    IF routes_state.available_routes = << >>
    THEN [route |-> NoRoute, routes_state |-> routes_state]
    ELSE IF route_is_usable(Head(routes_state.available_routes),
                            timeout_blocks, transfer_amount)
    THEN [ route |-> Head(routes_state.available_routes),
           routes_state |-> [routes_state EXCEPT !.available_routes = Tail(@)] ]
    ELSE next_route(
             [routes_state EXCEPT
                 !.available_routes = Tail(@),
                 !.ignored_routes = Append(@, Head(routes_state.available_routes))],
             timeout_blocks, transfer_amount)

\* the asserts at the top of next_transfer_pair
next_transfer_pair_raises(payer_transfer, timeout_blocks, block_number) ==
    \/ ~(timeout_blocks > 0)
    \/ ~(timeout_blocks <= payer_transfer.expiration - block_number)

\* the transfer sent to the payee: the payer's, with the new expiration
payee_transfer_of(payer_transfer, lock_expiration) ==
    LockedTransferState(
        payer_transfer.identifier,
        payer_transfer.amount,
        payer_transfer.token,
        payer_transfer.target,
        lock_expiration,
        payer_transfer.hashlock,
        payer_transfer.secret)

\* the recipient given to mediatedtransfer
mediated_recipient(payer_route, payee_route) == payer_route.node_address

\* pair_for_route giving the payee the whole of timeout_blocks
pair_for_route_full_timeout(payer_route, payer_transfer, found, timeout_blocks, block_number) ==
    IF found.route # NoRoute
    THEN [ transfer_pair |->
               MediationPairState(payer_route, payer_transfer, found.route,
                   payee_transfer_of(payer_transfer, timeout_blocks + block_number)),
           mediated_events |->
               << mediatedtransfer(
                      payee_transfer_of(payer_transfer, timeout_blocks + block_number),
                      mediated_recipient(payer_route, found.route)) >>,
           routes_state |-> found.routes_state ]
    ELSE [ transfer_pair |-> NoPair, mediated_events |-> << >>,
           routes_state |-> found.routes_state ]

\* next_transfer_pair once next_route has returned `found`
pair_for_route(payer_route, payer_transfer, found, timeout_blocks, block_number) ==
    IF found.route # NoRoute
    THEN LET lock_timeout == timeout_blocks - found.route.reveal_timeout
             lock_expiration == lock_timeout + block_number
         IN  [ transfer_pair |->
                   MediationPairState(payer_route, payer_transfer, found.route,
                                      payee_transfer_of(payer_transfer, lock_expiration)),
               mediated_events |->
                   << mediatedtransfer(payee_transfer_of(payer_transfer, lock_expiration),
                                       mediated_recipient(payer_route, found.route)) >>,
               routes_state |-> found.routes_state ]
    ELSE [ transfer_pair |-> NoPair, mediated_events |-> << >>,
           routes_state |-> found.routes_state ]

next_transfer_pair(payer_route, payer_transfer, routes_state, timeout_blocks, block_number) ==
    pair_for_route(payer_route, payer_transfer,
                   next_route(routes_state, timeout_blocks, payer_transfer.amount),
                   timeout_blocks, block_number)

----------------------------------------------------------------------------
(* Secret propagation *)

set_secret(st, secret) ==
    [st EXCEPT
        !.secret = secret,
        !.transfers_pair =
            [i \in 1..Len(@) |->
                [@[i] EXCEPT !.payer_transfer.secret = secret,
                             !.payee_transfer.secret = secret]]]

\* the index of the pair the reversed loop breaks at, 0 if it runs to the end
RECURSIVE payee_index(_, _, _)
payee_index(transfers_pair, i, payee_address) ==
    IF i = 0 THEN 0
    ELSE IF transfers_pair[i].payee_route.node_address = payee_address
         THEN i
         ELSE payee_index(transfers_pair, i - 1, payee_address)

\* wrong_reveal_order of the reversed loop: a pair visited before the break
\* whose payee does not know the secret
wrong_reveal_order(transfers_pair, payee_address) ==
    \E i \in (payee_index(transfers_pair, Len(transfers_pair), payee_address) + 1)
                 ..Len(transfers_pair) :
        transfers_pair[i].payee_state \notin STATE_SECRET_KNOWN

\* the pairs with the pair at index k (if any) given the new payee state
with_payee_state(transfers_pair, k, new_payee_state) ==
    IF k = 0 THEN transfers_pair
    ELSE [transfers_pair EXCEPT ![k].payee_state = new_payee_state]

\* the pairs as set_payee_state_and_check_reveal_order leaves them; the list
\* of events it returns is empty on both paths
set_payee_state_and_check_reveal_order(transfers_pair, payee_address, new_payee_state) ==
    with_payee_state(transfers_pair,
                     payee_index(transfers_pair, Len(transfers_pair), payee_address),
                     new_payee_state)

\* reveals_to_payer without the test of the payee side
reveals_to_payer_unordered(pair) ==
    payer_transfer_state(pair) \notin STATE_SECRET_KNOWN

reveals_to_payer(pair) ==
    LET payee_secret == payee_transfer_state(pair) \in STATE_SECRET_KNOWN
        payer_secret == payer_transfer_state(pair) \in STATE_SECRET_KNOWN
    IN  payee_secret /\ ~payer_secret

reveal_event(st, pair) ==
    SendRevealSecret(pair.payer_transfer.identifier,
                     pair.payer_transfer.secret,
                     pair.payer_route.node_address,
                     st.our_address)

RECURSIVE revealsecret_loop(_, _, _)
revealsecret_loop(st, i, evs) ==
    IF i = 0 THEN [new_state |-> st, events |-> evs]
    ELSE revealsecret_loop(
             IF reveals_to_payer(st.transfers_pair[i])
             THEN [st EXCEPT !.transfers_pair[i].payer_state = "payer_secret_revealed"]
             ELSE st,
             i - 1,
             IF reveals_to_payer(st.transfers_pair[i])
             THEN Append(evs, reveal_event(st, st.transfers_pair[i]))
             ELSE evs)

events_for_revealsecret(st) == revealsecret_loop(st, Len(st.transfers_pair), << >>)

\* pays_payee without the test of the payee lock
pays_payee_any_block(st, pair) ==
    LET payee_knows_secret == payee_transfer_state(pair) \in STATE_SECRET_KNOWN
        payee_payed == payee_transfer_state(pair) \in STATE_TRANSFER_PAYED
    IN  payee_knows_secret /\ ~payee_payed

pays_payee(st, pair) ==
    LET payee_knows_secret == payee_transfer_state(pair) \in STATE_SECRET_KNOWN
        payee_payed == payee_transfer_state(pair) \in STATE_TRANSFER_PAYED
        lock_valid == is_lock_valid(st.block_number, pair.payee_transfer)
    IN  payee_knows_secret /\ ~payee_payed /\ lock_valid

balanceproof_event(pair) ==
    SendBalanceProof(pair.payee_transfer.identifier, pair.payee_route.node_address)

RECURSIVE balanceproof_loop(_, _, _)
balanceproof_loop(st, i, evs) ==
    IF i = 0 THEN [new_state |-> st, events |-> evs]
    ELSE balanceproof_loop(
             IF pays_payee(st, st.transfers_pair[i])
             THEN [st EXCEPT !.transfers_pair[i].payee_state = "payee_balance_proof"]
             ELSE st,
             i - 1,
             IF pays_payee(st, st.transfers_pair[i])
             THEN Append(evs, balanceproof_event(st.transfers_pair[i]))
             ELSE evs)

events_for_balanceproof(st) == balanceproof_loop(st, Len(st.transfers_pair), << >>)

\* learned_iteration with the balance proofs ahead of the reveals
learned_iteration_proof_first(wrong_order, secret_reveal, balance_proof) ==
    Iteration(balance_proof.new_state,
              wrong_order \o balance_proof.events \o secret_reveal.events)

\* the Iteration secret_learned builds from its three event lists
learned_iteration(wrong_order, secret_reveal, balance_proof) ==
    Iteration(balance_proof.new_state,
              wrong_order \o secret_reveal.events \o balance_proof.events)

\* secret_learned from the reveal loop on: the balance proofs are computed on
\* the state the reveal loop left
learned_after_reveal(secret_reveal) ==
    learned_iteration(<< >>, secret_reveal,
                      events_for_balanceproof(secret_reveal.new_state))

\* with_secret without the test that no secret is known yet
with_secret_overwritten(st, secret) == set_secret(st, secret)

\* the state after `if state.secret is None: set_secret(state, secret)`
with_secret(st, secret) ==
    IF st.secret = None THEN set_secret(st, secret) ELSE st

secret_learned(st, secret, payee_address, new_payee_state) ==
    learned_after_reveal(
        events_for_revealsecret(
            [with_secret(st, secret)
                EXCEPT !.transfers_pair =
                    set_payee_state_and_check_reveal_order(@, payee_address,
                                                           new_payee_state)]))

----------------------------------------------------------------------------
(* Refund and mediation *)

\* events_for_refund_transfer giving the refund lock the whole of timeout_blocks
events_for_refund_transfer_full_timeout(refund_route, refund_transfer, timeout_blocks, block_number) ==
    IF timeout_blocks - refund_route.reveal_timeout > 0
    THEN << SendRefundTransfer(
                refund_transfer.identifier,
                refund_transfer.token,
                refund_transfer.amount,
                refund_transfer.hashlock,
                timeout_blocks + block_number,
                refund_route.node_address) >>
    ELSE << >>

events_for_refund_transfer(refund_route, refund_transfer, timeout_blocks, block_number) ==
    LET new_lock_timeout == timeout_blocks - refund_route.reveal_timeout
    IN  IF new_lock_timeout > 0
        THEN << SendRefundTransfer(
                    refund_transfer.identifier,
                    refund_transfer.token,
                    refund_transfer.amount,
                    refund_transfer.hashlock,
                    new_lock_timeout + block_number,
                    refund_route.node_address) >>
        ELSE << >>

\* refund_original refunding the current payer, whatever pairs exist
refund_current(st, payer_route, payer_transfer, timeout_blocks) ==
    Iteration(st,
        events_for_refund_transfer(payer_route, payer_transfer,
                                   timeout_blocks, st.block_number))

\* mediate_transfer when transfer_pair is None: refund the original payer
refund_original(st, payer_route, payer_transfer, timeout_blocks) ==
    Iteration(st,
        IF st.transfers_pair # << >>
        THEN events_for_refund_transfer(st.transfers_pair[1].payer_route,
                                        st.transfers_pair[1].payer_transfer,
                                        timeout_blocks, st.block_number)
        ELSE events_for_refund_transfer(payer_route, payer_transfer,
                                        timeout_blocks, st.block_number))

\* mediate_with_pair putting the new pair at the head of transfers_pair
mediate_with_pair_prepended(st, payer_route, payer_transfer, timeout_blocks, next) ==
    IF next.transfer_pair = NoPair
    THEN refund_original([st EXCEPT !.routes = next.routes_state],
                         payer_route, payer_transfer, timeout_blocks)
    ELSE Iteration([st EXCEPT !.routes = next.routes_state,
                              !.transfers_pair = <<next.transfer_pair>> \o @],
                   next.mediated_events)

\* mediate_transfer once next_transfer_pair has returned `next`
mediate_with_pair(st, payer_route, payer_transfer, timeout_blocks, next) ==
    IF next.transfer_pair = NoPair
    THEN refund_original([st EXCEPT !.routes = next.routes_state],
                         payer_route, payer_transfer, timeout_blocks)
    ELSE Iteration([st EXCEPT !.routes = next.routes_state,
                              !.transfers_pair = Append(@, next.transfer_pair)],
                   next.mediated_events)

\* mediate_transfer once get_timeout_blocks has returned
mediate_with_timeout(st, payer_route, payer_transfer, timeout_blocks) ==
    IF timeout_blocks > 0
    THEN IF next_transfer_pair_raises(payer_transfer, timeout_blocks, st.block_number)
         THEN Raised(st)
         ELSE mediate_with_pair(st, payer_route, payer_transfer, timeout_blocks,
                  next_transfer_pair(payer_route, payer_transfer, st.routes,
                                     timeout_blocks, st.block_number))
    ELSE refund_original(st, payer_route, payer_transfer, timeout_blocks)

mediate_transfer(st, payer_route, payer_transfer) ==
    IF get_timeout_blocks_raises(payer_route, st.block_number)
    THEN Raised(st)
    ELSE mediate_with_timeout(st, payer_route, payer_transfer,
             get_timeout_blocks(payer_route, payer_transfer, st.block_number))

----------------------------------------------------------------------------
(* Handlers *)

\* handle_block's test for the on-chain withdraw of a pending pair
must_withdraw(pair, block_number) ==
    LET payee_payed == payee_transfer_state(pair) \in STATE_TRANSFER_PAYED
        payer_payed == payer_transfer_state(pair) \in STATE_TRANSFER_PAYED
        witdrawing == pair.payer_state = "payer_waiting_withdraw"
    IN  /\ payee_payed /\ ~payer_payed /\ ~witdrawing
        /\ ~is_safe_to_wait(block_number, pair.payer_transfer,
                            pair.payer_route.reveal_timeout)

\* the test guarding the expiration marking of handle_block
marks_expired(pair, block_number) == pair.payer_transfer.expiration > block_number

\* the pair as the first half of the loop body leaves it
withdraw_marked(pair, block_number) ==
    IF must_withdraw(pair, block_number)
    THEN [pair EXCEPT !.payer_state = "payer_waiting_withdraw"]
    ELSE pair

\* the pair as the second half of the loop body leaves it
expiry_marked(pair, block_number) ==
    IF marks_expired(pair, block_number)
    THEN [pair EXCEPT !.payee_state = "payee_expired", !.payer_state = "payer_expired"]
    ELSE pair

\* the assert inside the expiration marking fails
expiry_raises(pair, block_number) ==
    /\ marks_expired(pair, block_number)
    /\ pair.payee_state \in STATE_TRANSFER_PAYED

withdraw_events(pair, block_number) ==
    IF must_withdraw(pair, block_number)
    THEN << ContractSendWithdraw(pair.payer_transfer, pair.payer_route.channel_address) >>
    ELSE << >>

\* handle_block's loop over reversed(pending_transfers_pairs): pending is the
\* list of indexes still to visit, the last one first
RECURSIVE handle_block_loop(_, _, _, _)
handle_block_loop(st, pending, block_number, evs) ==
    IF pending = << >> THEN Iteration(st, evs)
    ELSE IF expiry_raises(withdraw_marked(st.transfers_pair[pending[Len(pending)]],
                                          block_number), block_number)
    THEN Raised([st EXCEPT !.transfers_pair[pending[Len(pending)]] =
                               withdraw_marked(@, block_number)])
    ELSE handle_block_loop(
             [st EXCEPT !.transfers_pair[pending[Len(pending)]] =
                            expiry_marked(withdraw_marked(@, block_number), block_number)],
             SubSeq(pending, 1, Len(pending) - 1),
             block_number,
             evs \o withdraw_events(st.transfers_pair[pending[Len(pending)]],
                                    block_number))

handle_block(st, state_change) ==
    handle_block_loop([st EXCEPT !.block_number = state_change.block_number],
                      get_pending_transfer_pairs(st.transfers_pair),
                      state_change.block_number, << >>)

\* handle_refundtransfer leaving routes.refund_routes as it was
handle_refundtransfer_unrecorded(st, state_change) ==
    IF st.secret # None \/ st.transfers_pair = << >>
    THEN Raised(st)
    ELSE IF is_valid_refund(st.transfers_pair[Len(st.transfers_pair)].payee_transfer,
                            state_change.sender, state_change.transfer)
    THEN mediate_transfer(st,
             st.transfers_pair[Len(st.transfers_pair)].payee_route,
             state_change.transfer)
    ELSE Iteration(st, << >>)

handle_refundtransfer(st, state_change) ==
    IF st.secret # None \/ st.transfers_pair = << >>
    THEN Raised(st)
    ELSE IF is_valid_refund(st.transfers_pair[Len(st.transfers_pair)].payee_transfer,
                            state_change.sender, state_change.transfer)
    THEN mediate_transfer(
             [st EXCEPT !.routes.refund_routes =
                 Append(@, st.transfers_pair[Len(st.transfers_pair)].payee_route)],
             st.transfers_pair[Len(st.transfers_pair)].payee_route,
             state_change.transfer)
    ELSE Iteration(st, << >>)

\* handle_secretreveal without the hashlock check
handle_secretreveal_unchecked(st, state_change) ==
    secret_learned(st, state_change.secret, state_change.sender, "payee_secret_revealed")

handle_secretreveal(st, state_change) ==
    IF sha3(state_change.secret) = st.hashlock
    THEN secret_learned(st, state_change.secret, state_change.sender,
                        "payee_secret_revealed")
    ELSE Iteration(st, << >>)

\* the index of the first pair whose payer channel is channel_address, 0 if none
RECURSIVE payer_channel_index(_, _, _)
payer_channel_index(transfers_pair, i, channel_address) ==
    IF i > Len(transfers_pair) THEN 0
    ELSE IF transfers_pair[i].payer_route.channel_address = channel_address
         THEN i
         ELSE payer_channel_index(transfers_pair, i + 1, channel_address)

\* handle_contractwithdraw once the loop has found pair k (0: none): after the
\* break the else clause is skipped and `return iteration` finds it unbound
contractwithdraw_at(st, state_change, k) ==
    IF k # 0
    THEN Raised([st EXCEPT !.transfers_pair[k].payer_state = "payer_contract_withdraw"])
    ELSE secret_learned(st, state_change.secret, state_change.sender,
                        "payee_contract_withdraw")

handle_contractwithdraw(st, state_change) ==
    IF sha3_raises(st.secret) \/ sha3(st.secret) # st.hashlock
    THEN Raised(st)
    ELSE contractwithdraw_at(st, state_change,
             payer_channel_index(st.transfers_pair, 1, state_change.channel_address))

\* handle_balanceproof comparing node_address with the payer's node
handle_balanceproof_by_node(st, state_change) ==
    Iteration(
        [st EXCEPT !.transfers_pair =
            [i \in 1..Len(@) |->
                IF @[i].payer_route.node_address = state_change.node_address
                THEN [@[i] EXCEPT !.payer_state = "payer_balance_proof"]
                ELSE @[i]]],
        << >>)

handle_balanceproof(st, state_change) ==
    Iteration(
        [st EXCEPT !.transfers_pair =
            [i \in 1..Len(@) |->
                IF @[i].payer_route.channel_address = state_change.node_address
                THEN [@[i] EXCEPT !.payer_state = "payer_balance_proof"]
                ELSE @[i]]],
        << >>)

\* raiden.transfer.mediated_transfer.transition.update_route: the available
\* route of the same node is replaced by the updated route; a route that is
\* not among the available routes changes nothing
update_route(st, state_change) ==
    [st EXCEPT !.routes.available_routes =
        [i \in 1..Len(@) |->
            IF @[i].node_address = state_change.route.node_address
            THEN state_change.route
            ELSE @[i]]]

handle_routechange(st, state_change) ==
    Iteration(update_route(st, state_change), << >>)

----------------------------------------------------------------------------
(* Dispatch *)

\* accepted_kinds with a ReceiveBalanceProof case in the secret-unset branch
accepted_kinds_early_proof(st) ==
    IF st = NoState THEN {"ActionInitMediator"}
    ELSE { "Block", "ActionRouteChange", "ReceiveTransferRefund", "ReceiveSecretReveal",
           "ReceiveBalanceProof", "ContractReceiveWithdraw" }

\* the state changes each branch of state_transition has a case for
accepted_kinds(st) ==
    IF st = NoState THEN {"ActionInitMediator"}
    ELSE IF st.secret = None
    THEN { "Block", "ActionRouteChange", "ReceiveTransferRefund",
           "ReceiveSecretReveal", "ContractReceiveWithdraw" }
    ELSE { "Block", "ReceiveSecretReveal", "ReceiveBalanceProof",
           "ContractReceiveWithdraw" }

\* the state built for ActionInitMediator is local to the call: an exception
\* leaves the caller with the None it passed
init_iteration(iteration) ==
    IF iteration.raised THEN Raised(NoState) ELSE iteration

init_mediator(state_change) ==
    init_iteration(
        mediate_transfer(
            MediatorState(state_change.our_address, state_change.routes,
                          state_change.block_number,
                          state_change.from_transfer.hashlock),
            state_change.from_route, state_change.from_transfer))

handler(st, state_change) ==
    CASE state_change.type = "ActionInitMediator" -> init_mediator(state_change)
      [] state_change.type = "Block" -> handle_block(st, state_change)
      [] state_change.type = "ActionRouteChange" -> handle_routechange(st, state_change)
      [] state_change.type = "ReceiveTransferRefund" -> handle_refundtransfer(st, state_change)
      [] state_change.type = "ReceiveSecretReveal" -> handle_secretreveal(st, state_change)
      [] state_change.type = "ReceiveBalanceProof" -> handle_balanceproof(st, state_change)
      [] state_change.type = "ContractReceiveWithdraw" ->
             handle_contractwithdraw(st, state_change)

\* dispatch with a ReceiveTransferRefund branch in both phases of a live
\* mediator, and no assert on state.secret
dispatch_late_refund(st, state_change) ==
    IF st # NoState /\ state_change.type = "ReceiveTransferRefund"
    THEN handle_refundtransfer([st EXCEPT !.secret = None], state_change)
    ELSE IF state_change.type \in accepted_kinds(st)
    THEN handler(st, state_change)
    ELSE Raised(st)

\* the handler's iteration, before clear_if_finalized; a state_change no
\* branch takes leaves `iteration` unbound and the return statement raises
dispatch(st, state_change) ==
    IF state_change.type \in accepted_kinds(st)
    THEN handler(st, state_change)
    ELSE Raised(st)

finish(iteration) ==
    IF iteration.raised THEN iteration ELSE clear_if_finalized(iteration)

state_transition(st, state_change) == finish(dispatch(st, state_change))

----------------------------------------------------------------------------
(* The state changes the driver delivers *)

OurAddress == "N"
PayerNode == "A"
TargetNode == "T"
Stranger == "X"

\* the neighbours a route provider can offer as next hop
PayeeNodes == {"B", "C"}

channel_of(node) ==
    CASE node = "A" -> "chA" [] node = "B" -> "chB" [] node = "C" -> "chC"
      [] OTHER -> "chX"

Channels == {channel_of(n) : n \in {PayerNode, Stranger} \cup PayeeNodes}

Amount == 10
SettleTimeout == 20
ShortSettleTimeout == 6

\* an open channel to node with enough balance and a short reveal timeout
GoodRoute(node) ==
    RouteState(node, channel_of(node), Amount, SettleTimeout, 1, NoBlock)

\* a channel without the balance for the transfer
PoorRoute(node) ==
    RouteState(node, channel_of(node), Amount - 5, SettleTimeout, 1, NoBlock)

\* a channel with a long reveal timeout
SlowRoute(node) ==
    RouteState(node, channel_of(node), Amount, SettleTimeout, 3, NoBlock)

\* the channels a route provider can offer towards one node
RoutesTo(node) ==
    CASE node = "B" -> {GoodRoute(node), PoorRoute(node)}
      [] OTHER -> {GoodRoute(node), SlowRoute(node)}

AllRoutes == UNION {RoutesTo(n) : n \in PayeeNodes}

\* the lists of at most n routes to pairwise distinct nodes
RECURSIVE RouteLists(_)
RouteLists(n) ==
    IF n = 0 THEN {<< >>}
    ELSE LET shorter == RouteLists(n - 1)
         IN  shorter \cup
             { Append(l, r) : <<l, r>> \in
                 { <<l, r>> \in shorter \X AllRoutes :
                     \A i \in 1..Len(l) : l[i].node_address # r.node_address } }

\* the payer's channel: open, closed at block 0 with a short settlement
\* period, or closed at a block the mediator has not seen yet
PayerRoutes ==
    { RouteState(PayerNode, channel_of(PayerNode), Amount, SettleTimeout, 2, NoBlock),
      RouteState(PayerNode, channel_of(PayerNode), Amount, ShortSettleTimeout, 2, 0),
      RouteState(PayerNode, channel_of(PayerNode), Amount, SettleTimeout, 2, 2) }

InitTransfer(expiration) ==
    LockedTransferState(1, Amount, "token", TargetNode, expiration, sha3("s1"), None)

ActionInitMediator(routes, block_number, from_route, from_transfer) ==
    [ type |-> "ActionInitMediator", our_address |-> OurAddress,
      routes |-> routes, block_number |-> block_number,
      from_route |-> from_route, from_transfer |-> from_transfer ]

Block(block_number) == [type |-> "Block", block_number |-> block_number]

ActionRouteChange(route) == [type |-> "ActionRouteChange", route |-> route]

ReceiveTransferRefund(sender, transfer) ==
    [type |-> "ReceiveTransferRefund", sender |-> sender, transfer |-> transfer]

ReceiveSecretReveal(sender, secret) ==
    [type |-> "ReceiveSecretReveal", sender |-> sender, secret |-> secret]

ReceiveBalanceProof(node_address) ==
    [type |-> "ReceiveBalanceProof", node_address |-> node_address]

ContractReceiveWithdraw(channel_address, sender, secret) ==
    [ type |-> "ContractReceiveWithdraw", channel_address |-> channel_address,
      sender |-> sender, secret |-> secret ]

\* a payer's channel with a reveal timeout as short as a payee's
QuickPayerRoute ==
    RouteState(PayerNode, channel_of(PayerNode), Amount, SettleTimeout, 1, NoBlock)

\* the mediator is created at block 0, or at block 1 when the payer's
\* channel is closed, one block into its settlement period
InitChanges ==
    { ActionInitMediator(RoutesState(l), b, r, InitTransfer(e)) :
        l \in RouteLists(Cardinality(PayeeNodes)), b \in {0}, r \in PayerRoutes,
        e \in {2, 3, MaxBlock} }
    \cup
    { ActionInitMediator(RoutesState(l), 1, r, InitTransfer(MaxBlock)) :
        l \in RouteLists(1), r \in {r \in PayerRoutes : r.close_block # NoBlock} }
    \cup
    { ActionInitMediator(RoutesState(l), 0, QuickPayerRoute, InitTransfer(MaxBlock)) :
        l \in RouteLists(1) }

\* a mediator is created once, by the first state change; on a live mediator
\* and on a cleared one every ActionInitMediator takes the same path
InitChangesFor(st) ==
    IF outcome = "init" THEN InitChanges
    ELSE { ActionInitMediator(RoutesState(<< >>), 0, GoodRoute(PayerNode),
                              InitTransfer(MaxBlock)) }

\* block numbers only grow
BlockChangesFor(st) ==
    IF st = NoState THEN {Block(0), Block(MaxBlock)}
    ELSE {Block(b) : b \in st.block_number..MaxBlock}

RouteChangesFor(st) ==
    IF st = NoState THEN {ActionRouteChange(r) : r \in RoutesTo("B")}
    ELSE {ActionRouteChange(GoodRoute(n)) : n \in PayeeNodes}

\* refunds of a transfer sent: with each expiration around the original's,
\* and with one other field changed; RefundChangesFor adds refunds of the
\* last transfer from other senders and a refund of the first transfer
RefundTransfersOf(original) ==
    { [original EXCEPT !.expiration = e] :
        e \in { original.expiration - 1, original.expiration,
                original.expiration + 1 } \cap 1..MaxBlock }
    \cup
    { [original EXCEPT !.expiration = @ - 1, !.identifier = 2],
      [original EXCEPT !.expiration = @ - 1, !.amount = @ - 1],
      [original EXCEPT !.expiration = @ - 1, !.hashlock = sha3("s2")],
      [original EXCEPT !.expiration = @ - 1, !.target = Stranger] }

\* a refund accepted without a new pair can be delivered again and again,
\* each time adding to refund_routes: at most MaxRefunds are accepted
RefundChangesFor(st) ==
    IF st = NoState \/ st.transfers_pair = << >>
    THEN {ReceiveTransferRefund("B", InitTransfer(4))}
    ELSE IF Len(st.routes.refund_routes) >= MaxRefunds
    THEN {}
    ELSE LET last == st.transfers_pair[Len(st.transfers_pair)]
         IN  { ReceiveTransferRefund(last.payee_route.node_address, t) :
                 t \in RefundTransfersOf(last.payee_transfer) }
             \cup
             { ReceiveTransferRefund(s, [last.payee_transfer EXCEPT !.expiration = @ - 1]) :
                 s \in {TargetNode, Stranger} }
             \cup
             { ReceiveTransferRefund(
                   st.transfers_pair[1].payee_route.node_address,
                   [st.transfers_pair[1].payee_transfer EXCEPT !.expiration = @ - 1]) }

SecretChangesFor(st) ==
    IF st = NoState THEN {ReceiveSecretReveal("B", "s1")}
    ELSE {ReceiveSecretReveal(n, "s1") : n \in PayeeNodes \cup {Stranger}}
         \cup {ReceiveSecretReveal("B", "s2")}

BalanceProofChangesFor(st) ==
    IF st = NoState THEN {ReceiveBalanceProof(channel_of(PayerNode))}
    ELSE {ReceiveBalanceProof(a) : a \in (Channels \ {channel_of(Stranger)}) \cup {PayerNode}}

WithdrawChangesFor(st) ==
    IF st = NoState THEN {ContractReceiveWithdraw(channel_of(PayerNode), PayerNode, "s1")}
    ELSE { ContractReceiveWithdraw(c, Stranger, "s1") : c \in Channels }
         \cup
         { ContractReceiveWithdraw(channel_of(Stranger), n, "s1") : n \in PayeeNodes }
         \cup {ContractReceiveWithdraw(channel_of(Stranger), "B", "s2")}

----------------------------------------------------------------------------
(* The driver: one state change at a time; an exception ends the process *)

Init ==
    /\ state = NoState
    /\ events = << >>
    /\ outcome = "init"
    /\ change = [type |-> "none"]

Returned(iteration, state_change) ==
    /\ state' = iteration.new_state
    /\ events' = iteration.events
    /\ outcome' = IF iteration.raised THEN "raised" ELSE "returned"
    /\ change' = state_change

Deliver(state_change) ==
    /\ outcome # "raised"
    /\ Returned(state_transition(state, state_change), state_change)

DoInitMediator == \E c \in InitChangesFor(state) : Deliver(c)

DoBlock == \E c \in BlockChangesFor(state) : Deliver(c)

DoRouteChange == \E c \in RouteChangesFor(state) : Deliver(c)

DoTransferRefund == \E c \in RefundChangesFor(state) : Deliver(c)

DoSecretReveal == \E c \in SecretChangesFor(state) : Deliver(c)

DoBalanceProof == \E c \in BalanceProofChangesFor(state) : Deliver(c)

DoContractWithdraw == \E c \in WithdrawChangesFor(state) : Deliver(c)

Next ==
    \/ DoInitMediator
    \/ DoBlock
    \/ DoRouteChange
    \/ DoTransferRefund
    \/ DoSecretReveal
    \/ DoBalanceProof
    \/ DoContractWithdraw

Spec == Init /\ [][Next]_vars

----------------------------------------------------------------------------
(* Properties *)

Live == state # NoState

PairIndexes == IF Live THEN 1..Len(state.transfers_pair) ELSE {}

PayeeSecretKnown ==
    {"payee_secret_revealed", "payee_contract_withdraw", "payee_balance_proof"}

\* C1: in every state, every pair's payee lock expires at least the payee
\* route's reveal_timeout plus TRANSIT_BLOCKS before its payer lock.
C1_PayeeExpiresBeforePayer ==
    \A i \in PairIndexes :
        state.transfers_pair[i].payee_transfer.expiration
            + state.transfers_pair[i].payee_route.reveal_timeout + TRANSIT_BLOCKS
        <= state.transfers_pair[i].payer_transfer.expiration

\* a second pair has been built on a refund, after other events
C1_Witness ==
    /\ Live /\ outcome = "returned"
    /\ change.type = "ReceiveTransferRefund"
    /\ Len(state.transfers_pair) = 2
    /\ state.transfers_pair[2].payee_transfer.expiration
           + state.transfers_pair[2].payee_route.reveal_timeout + TRANSIT_BLOCKS
       = state.transfers_pair[2].payer_transfer.expiration

\* C2 (as claimed): a pair whose payer side is payer_balance_proof has its
\* payee side in SECRET_KNOWN.
C2_PaidPayerImpliesPayeeKnows ==
    \A i \in PairIndexes :
        state.transfers_pair[i].payer_state = "payer_balance_proof"
            => state.transfers_pair[i].payee_state \in PayeeSecretKnown

\* C2 (amended): a pair whose payer side is payer_balance_proof exists only
\* once state.secret is set.
C2_PaidPayerImpliesSecretSet ==
    \A i \in PairIndexes :
        state.transfers_pair[i].payer_state = "payer_balance_proof"
            => state.secret # None

\* the payer's balance proof arrived for a pair whose payee never
\* acknowledged the secret
C2_Witness ==
    /\ Live /\ outcome = "returned"
    /\ change.type = "ReceiveBalanceProof"
    /\ \E i \in PairIndexes :
           /\ state.transfers_pair[i].payer_state = "payer_balance_proof"
           /\ state.transfers_pair[i].payee_state = "payee_pending"

\* C3: a state change the phase of a live mediator does not accept returns
\* a result, with the state unchanged and no events.
C3_TotalAndIgnoresUnaccepted ==
    [][ (state # NoState /\ change'.type \notin accepted_kinds(state))
            => (outcome' = "returned" /\ state' = state /\ events' = << >>) ]_vars

\* C4: with state = None every state change other than ActionInitMediator
\* returns (None, []).
C4_NoneIgnoresEvents ==
    [][ (state = NoState /\ change'.type # "ActionInitMediator")
            => (outcome' = "returned" /\ state' = NoState /\ events' = << >>) ]_vars

\* C5: whenever state.secret is set it hashes to state.hashlock and every
\* transfer of every pair carries it.
C5_SecretMatchesHashlock ==
    (Live /\ state.secret # None) =>
        /\ sha3(state.secret) = state.hashlock
        /\ \A i \in PairIndexes :
               /\ state.transfers_pair[i].payer_transfer.secret = state.secret
               /\ state.transfers_pair[i].payee_transfer.secret = state.secret

\* the secret was just set by a reveal, with two pairs to carry it
C5_Witness ==
    /\ Live /\ outcome = "returned"
    /\ change.type = "ReceiveSecretReveal"
    /\ state.secret = change.secret
    /\ Len(state.transfers_pair) = 2

PayerSecretKnown ==
    {"payer_secret_revealed", "payer_contract_withdraw", "payer_balance_proof"}

PayeePaid == {"payee_contract_withdraw", "payee_balance_proof"}

PayerPaid == {"payer_contract_withdraw", "payer_balance_proof"}

\* the events of the given type in evs
EventsOfType(evs, type) == {k \in 1..Len(evs) : evs[k].type = type}

\* C6: a Block event marks a payer side expired only when the block is past
\* the payer lock, and a payee side only when the block is past the payee
\* lock and the payee is not paid.
C6_ExpiredOnlyPastExpiration ==
    [][ (state # NoState /\ change'.type = "Block") =>
          \A i \in 1..Len(state.transfers_pair) :
            LET before == state.transfers_pair[i]
                after == handle_block(state, change').new_state.transfers_pair[i]
                b == change'.block_number
            IN  /\ (after.payer_state = "payer_expired"
                        /\ before.payer_state # "payer_expired")
                       => b > before.payer_transfer.expiration
                /\ (after.payee_state = "payee_expired"
                        /\ before.payee_state # "payee_expired")
                       => (b > before.payee_transfer.expiration
                               /\ before.payee_state \notin PayeePaid) ]_vars

\* C7: on Block(b) a pending pair gets ContractSendWithdraw and
\* payer_waiting_withdraw exactly when its payee is paid, its payer is
\* neither paid nor already withdrawing, and waiting is not safe; otherwise
\* no withdraw is emitted for it and the pair is left as it was.
C7_WithdrawExactlyWhenUnsafe ==
    [][ (state # NoState /\ change'.type = "Block") =>
          LET result == handle_block(state, change')
              b == change'.block_number
          IN  /\ ~result.raised
              /\ \A i \in 1..Len(state.transfers_pair) :
                   LET before == state.transfers_pair[i]
                       after == result.new_state.transfers_pair[i]
                       emitted ==
                           \E k \in 1..Len(result.events) :
                               result.events[k] =
                                   ContractSendWithdraw(before.payer_transfer,
                                       before.payer_route.channel_address)
                       unsafe ==
                           /\ before.payee_state \in PayeePaid
                           /\ before.payer_state \notin PayerPaid
                           /\ before.payer_state # "payer_waiting_withdraw"
                           /\ b >= before.payer_transfer.expiration
                                       - before.payer_route.reveal_timeout
                   IN  is_pending(before) =>
                         IF unsafe
                         THEN emitted /\ after.payer_state = "payer_waiting_withdraw"
                         ELSE ~emitted /\ after = before ]_vars

\* a call that returns a SendRevealSecret neither builds a pair nor clears
\* the state
C8_RevealKeepsPairs ==
    (outcome' = "returned" /\ EventsOfType(events', "SendRevealSecret") # {})
        => (state # NoState /\ state' # NoState
                /\ Len(state'.transfers_pair) = Len(state.transfers_pair))

\* C8: a SendRevealSecret goes to a pair's payer, and the payer side becomes
\* payer_secret_revealed, only when the pair's payee side knows the secret
\* and its payer side did not.
C8_RevealOnlyAfterPayeeKnows ==
    [][ /\ C8_RevealKeepsPairs
        /\ (state # NoState /\ state' # NoState /\ outcome' = "returned"
             /\ Len(state'.transfers_pair) = Len(state.transfers_pair)) =>
          /\ \A k \in EventsOfType(events', "SendRevealSecret") :
               \E i \in 1..Len(state.transfers_pair) :
                   /\ state'.transfers_pair[i].payer_route.node_address
                          = events'[k].recipient
                   /\ state'.transfers_pair[i].payee_state \in PayeeSecretKnown
                   /\ state.transfers_pair[i].payer_state \notin PayerSecretKnown
                   /\ state'.transfers_pair[i].payer_state = "payer_secret_revealed"
          /\ \A i \in 1..Len(state.transfers_pair) :
               (/\ state'.transfers_pair[i].payer_state = "payer_secret_revealed"
                /\ state.transfers_pair[i].payer_state # "payer_secret_revealed")
               => /\ state'.transfers_pair[i].payee_state \in PayeeSecretKnown
                  /\ state.transfers_pair[i].payer_state \notin PayerSecretKnown
                  /\ \E k \in EventsOfType(events', "SendRevealSecret") :
                         events'[k].recipient
                             = state'.transfers_pair[i].payer_route.node_address ]_vars

\* the payee of the second pair revealed the secret: it is revealed to that
\* pair's payer only, the first pair's payee has not acknowledged it
C8_Witness ==
    /\ Live /\ outcome = "returned"
    /\ change.type = "ReceiveSecretReveal"
    /\ Len(state.transfers_pair) = 2
    /\ state.transfers_pair[2].payer_state = "payer_secret_revealed"
    /\ state.transfers_pair[1].payee_state = "payee_pending"
    /\ state.transfers_pair[1].payer_state = "payer_pending"
    /\ EventsOfType(events, "SendRevealSecret") # {}

\* C9: when a pair is built, exactly one SendMediatedTransfer is emitted,
\* carrying the new payee transfer to the payee route's node.
C9_MediatedTransferToPayee ==
    [][ (outcome' = "returned" /\ state' # NoState
             /\ Len(state'.transfers_pair)
                    > (IF state = NoState THEN 0 ELSE Len(state.transfers_pair))) =>
          LET new == state'.transfers_pair[Len(state'.transfers_pair)]
          IN  events' = << mediatedtransfer(new.payee_transfer,
                                            new.payee_route.node_address) >> ]_vars

\* a matching reveal arrives from the payee of a pair with both sides
\* pending and the payee lock still valid
C10_Case(i) ==
    /\ state # NoState
    /\ change'.type = "ReceiveSecretReveal"
    /\ sha3(change'.secret) = state.hashlock
    /\ i \in 1..Len(state.transfers_pair)
    /\ state.transfers_pair[i].payee_route.node_address = change'.sender
    /\ state.transfers_pair[i].payee_state = "payee_pending"
    /\ state.transfers_pair[i].payer_state = "payer_pending"
    /\ is_lock_valid(state.block_number, state.transfers_pair[i].payee_transfer)

C10_Proof(i) ==
    SendBalanceProof(state.transfers_pair[i].payee_transfer.identifier,
                     state.transfers_pair[i].payee_route.node_address)

C10_Reveal(i) ==
    SendRevealSecret(state.transfers_pair[i].payer_transfer.identifier,
                     change'.secret,
                     state.transfers_pair[i].payer_route.node_address,
                     state.our_address)

\* C10 (as claimed): the events of that transition are the SendBalanceProof
\* to the payee followed by the SendRevealSecret to the payer.
C10_ProofThenReveal ==
    [][ \A i \in PairIndexes :
          C10_Case(i) => (outcome' = "returned"
                              /\ events' = <<C10_Proof(i), C10_Reveal(i)>>) ]_vars

\* C10 (amended): the events of that transition are the SendRevealSecret to
\* the payer followed by the SendBalanceProof to the payee.
C10_RevealThenProof ==
    [][ \A i \in PairIndexes :
          C10_Case(i) => (outcome' = "returned"
                              /\ events' = <<C10_Reveal(i), C10_Proof(i)>>) ]_vars

\* the payee of the second pair revealed the secret while its lock was valid:
\* the reveal to its payer comes first, the balance proof second
C10_Witness ==
    /\ Live /\ outcome = "returned"
    /\ change.type = "ReceiveSecretReveal"
    /\ Len(state.transfers_pair) = 2
    /\ state.transfers_pair[2].payee_route.node_address = change.sender
    /\ state.transfers_pair[2].payee_state = "payee_balance_proof"
    /\ state.transfers_pair[2].payer_state = "payer_secret_revealed"
    /\ state.transfers_pair[1].payee_state = "payee_pending"
    /\ Len(events) = 2
    /\ events[1].type = "SendRevealSecret"
    /\ events[2].type = "SendBalanceProof"

\* C11: once state.secret is set, every transition that leaves a state
\* leaves the same secret in it.
C11_SecretNeverChanges ==
    [][ (state # NoState /\ state.secret # None /\ state' # NoState)
            => state'.secret = state.secret ]_vars

\* a withdraw carrying another secret was handled while the secret was known
C11_Witness ==
    /\ Live /\ outcome = "returned"
    /\ state.secret = "s1"
    /\ change.type = "ContractReceiveWithdraw"
    /\ change.secret = "s2"

\* C12: after Block(b) has been applied to a live mediator, applying the
\* same Block(b) again returns no events and the state the first left.
C12_BlockIdempotent ==
    [][ (state # NoState /\ change'.type = "Block" /\ outcome' = "returned") =>
          LET again == state_transition(state', change')
          IN  /\ ~again.raised
              /\ again.new_state = state'
              /\ again.events = << >> ]_vars

\* C13: an ActionInitMediator that builds no pair returns a live mediator
\* with no pairs, with the refund event if one can be made or no event.
C13_InitWithoutPairStaysLive ==
    [][ (state = NoState /\ change'.type = "ActionInitMediator"
             /\ outcome' = "returned"
             /\ EventsOfType(events', "SendMediatedTransfer") = {}) =>
          /\ state' # NoState
          /\ state'.transfers_pair = << >>
          /\ Len(events') <= 1
          /\ \A k \in 1..Len(events') :
                 /\ events'[k].type = "SendRefundTransfer"
                 /\ events'[k].recipient = change'.from_route.node_address ]_vars

FinalSubStates ==
    { "payee_contract_withdraw", "payee_balance_proof", "payee_expired",
      "payer_contract_withdraw", "payer_balance_proof", "payer_expired" }

\* C14: a call that returns gives the handler's events, and None if every
\* pair the handler left is final on both sides, the handler's state
\* otherwise; a paid payee followed by the payer's balance proof clears it.
C14_ClearedExactlyWhenAllFinal ==
    [][ outcome' = "returned" =>
          LET handled == dispatch(state, change')
          IN  /\ events' = handled.events
              /\ IF \A i \in 1..Len(handled.new_state.transfers_pair) :
                        /\ handled.new_state.transfers_pair[i].payee_state
                               \in FinalSubStates
                        /\ handled.new_state.transfers_pair[i].payer_state
                               \in FinalSubStates
                 THEN state' = NoState
                 ELSE state' = handled.new_state
              /\ (/\ state # NoState
                  /\ change'.type = "ReceiveBalanceProof"
                  /\ Len(state.transfers_pair) = 1
                  /\ state.transfers_pair[1].payee_state = "payee_balance_proof"
                  /\ state.transfers_pair[1].payer_route.channel_address
                         = change'.node_address)
                 => (state' = NoState /\ events' = << >>) ]_vars

\* the payer's balance proof arrived and the mediator was cleared
C14_Witness ==
    /\ state = NoState /\ outcome = "returned"
    /\ change.type = "ReceiveBalanceProof"
    /\ change.node_address = channel_of(PayerNode)

\* C15: in every state each pair's payer lock expires strictly before the
\* payer lock of the pair ahead of it in transfers_pair.
C15_PairsByDecreasingExpiration ==
    \A i \in PairIndexes, j \in PairIndexes :
        i < j => state.transfers_pair[i].payer_transfer.expiration
                     > state.transfers_pair[j].payer_transfer.expiration

\* a valid refund has just appended a second pair
C15_Witness ==
    /\ Live /\ outcome = "returned"
    /\ change.type = "ReceiveTransferRefund"
    /\ Len(state.transfers_pair) = 2
    /\ state.transfers_pair[2].payer_transfer = change.transfer
    /\ state.transfers_pair[2].payer_route = state.transfers_pair[1].payee_route

\* C16: a ReceiveTransferRefund delivered once state.secret is set appends
\* no pair, leaves the three route lists as they were and emits no event.
C16_NoRefundOnceSecretKnown ==
    [][ (state # NoState /\ state.secret # None
             /\ change'.type = "ReceiveTransferRefund") =>
          /\ state' # NoState
          /\ state'.transfers_pair = state.transfers_pair
          /\ state'.routes = state.routes
          /\ events' = << >> ]_vars

\* a refund that is valid against the tail pair was delivered with the secret
\* known and a route still available
C16_Witness ==
    /\ Live
    /\ state.secret # None
    /\ change.type = "ReceiveTransferRefund"
    /\ state.routes.available_routes # << >>
    /\ is_valid_refund(state.transfers_pair[Len(state.transfers_pair)].payee_transfer,
                       change.sender, change.transfer)

\* the refund of state_change matches the payee transfer of the last pair
RefundMatchesTail(st, state_change) ==
    LET original == st.transfers_pair[Len(st.transfers_pair)].payee_transfer
        refund == state_change.transfer
    IN  /\ state_change.sender # original.target
        /\ refund.identifier = original.identifier
        /\ refund.amount = original.amount
        /\ refund.hashlock = original.hashlock
        /\ refund.target = original.target
        /\ refund.expiration < original.expiration

\* C17: a ReceiveTransferRefund that matches the last pair's payee transfer
\* (and arrives before the secret) is accepted, its route recorded in
\* refund_routes; any other leaves the state unchanged and emits nothing.
C17_RefundOnlyAgainstTail ==
    [][ (state # NoState /\ change'.type = "ReceiveTransferRefund") =>
          IF state.secret = None /\ RefundMatchesTail(state, change')
          THEN /\ outcome' = "returned"
               /\ state' # NoState
               /\ state'.routes.refund_routes =
                      Append(state.routes.refund_routes,
                             state.transfers_pair[Len(state.transfers_pair)].payee_route)
          ELSE /\ state' = state
               /\ events' = << >>
               /\ state.secret = None => outcome' = "returned" ]_vars

\* a refund with the expiration of the original was delivered and ignored
C17_Witness ==
    /\ Live /\ outcome = "returned"
    /\ change.type = "ReceiveTransferRefund"
    /\ change.sender = state.transfers_pair[Len(state.transfers_pair)].payee_route.node_address
    /\ change.transfer = state.transfers_pair[Len(state.transfers_pair)].payee_transfer
    /\ events = << >>

\* a refund of the first pair's transfer was delivered after a second pair
\* had been appended, and ignored
C17_EarlierPairWitness ==
    /\ Live /\ outcome = "returned"
    /\ change.type = "ReceiveTransferRefund"
    /\ Len(state.transfers_pair) = 2
    /\ change.sender = state.transfers_pair[1].payee_route.node_address
    /\ change.transfer.expiration = state.transfers_pair[1].payee_transfer.expiration - 1
    /\ events = << >>

\* C18: a ReceiveSecretReveal whose secret does not hash to state.hashlock
\* returns the state unchanged and no events; one whose secret matches
\* leaves the secret known and the sender's pair (if the state is kept) with
\* a payee side that knows the secret.
C18_WrongSecretIgnored ==
    [][ (state # NoState /\ change'.type = "ReceiveSecretReveal") =>
          IF sha3(change'.secret) # state.hashlock
          THEN outcome' = "returned" /\ state' = state /\ events' = << >>
          ELSE /\ outcome' = "returned"
               /\ state' # NoState =>
                    /\ state'.secret # None
                    /\ \A i \in 1..Len(state.transfers_pair) :
                         state.transfers_pair[i].payee_route.node_address
                                 = change'.sender
                             => state'.transfers_pair[i].payee_state
                                    \in {"payee_secret_revealed", "payee_balance_proof"} ]_vars

\* a secret that does not match was delivered before the secret was known
C18_Witness ==
    /\ Live /\ outcome = "returned"
    /\ change.type = "ReceiveSecretReveal"
    /\ sha3(change.secret) # state.hashlock
    /\ state.secret = None
    /\ events = << >>

\* the nodes of the routes in a list of routes
NodesOf(route_list) == {route_list[i].node_address : i \in 1..Len(route_list)}

\* C19: in every state no route (identified by its node) is in more than one
\* of available_routes, ignored_routes and refund_routes.
C19_RouteListsDisjoint ==
    Live =>
        /\ NodesOf(state.routes.available_routes)
               \cap NodesOf(state.routes.ignored_routes) = {}
        /\ NodesOf(state.routes.available_routes)
               \cap NodesOf(state.routes.refund_routes) = {}
        /\ NodesOf(state.routes.ignored_routes)
               \cap NodesOf(state.routes.refund_routes) = {}

\* one route was rejected by next_route and another came back in a refund
C19_Witness ==
    /\ Live
    /\ state.routes.ignored_routes # << >>
    /\ state.routes.refund_routes # << >>

----------------------------------------------------------------------------
(* next_route on its own: `change` holds the arguments of one call, `state`
   the route it returned and the routes_state it left *)

\* the routes a caller can hold: two per node, towards three nodes
CandidateRoutes ==
    { GoodRoute("B"), PoorRoute("B"), GoodRoute("C"), SlowRoute("C"),
      PoorRoute("D"), SlowRoute("D") }

\* the lists of at most n candidate routes to pairwise distinct nodes
RECURSIVE CandidateLists(_)
CandidateLists(n) ==
    IF n = 0 THEN {<< >>}
    ELSE LET shorter == CandidateLists(n - 1)
         IN  shorter \cup
             { Append(l, r) : <<l, r>> \in
                 { <<l, r>> \in shorter \X CandidateRoutes :
                     \A i \in 1..Len(l) : l[i].node_address # r.node_address } }

\* the routes_state of a call: any candidate list, with or without a route
\* ignored by an earlier call
NextRouteCalls ==
    { [ type |-> "next_route",
        routes_state |-> [RoutesState(l) EXCEPT !.ignored_routes = g],
        timeout_blocks |-> t,
        transfer_amount |-> Amount ] :
        l \in CandidateLists(MaxRouteList),
        g \in {<< >>, <<PoorRoute(Stranger)>>},
        t \in 0..MaxTimeout }

InitNextRoute ==
    /\ state = NoState
    /\ events = << >>
    /\ outcome = "init"
    /\ change \in NextRouteCalls

CallNextRoute ==
    /\ outcome = "init"
    /\ state' = next_route(change.routes_state, change.timeout_blocks,
                           change.transfer_amount)
    /\ outcome' = "returned"
    /\ UNCHANGED <<events, change>>

NextNextRoute == CallNextRoute

SpecNextRoute == InitNextRoute /\ [][NextNextRoute]_vars

\* the routes of the list that qualify, by position
Qualifying(available, timeout_blocks, transfer_amount) ==
    { k \in 1..Len(available) :
        /\ available[k].available_balance >= transfer_amount
        /\ timeout_blocks - available[k].reveal_timeout > 0 }

\* the least element of a non-empty set of numbers
Least(S) == CHOOSE k \in S : \A other \in S : k <= other

\* C20: next_route returns the first qualifying route of available_routes,
\* appends the routes before it to ignored_routes in order and leaves the
\* routes after it available; with no qualifying route it returns None,
\* leaves available_routes empty and every route ignored.
C20_FirstQualifyingRoute ==
    (change.type = "next_route" /\ outcome = "returned") =>
        LET before == change.routes_state
            available == before.available_routes
            qualifying == Qualifying(available, change.timeout_blocks,
                                     change.transfer_amount)
        IN  /\ state.routes_state.refund_routes = before.refund_routes
            /\ IF qualifying = {}
               THEN /\ state.route = NoRoute
                    /\ state.routes_state.available_routes = << >>
                    /\ state.routes_state.ignored_routes
                           = before.ignored_routes \o available
               ELSE /\ state.route = available[Least(qualifying)]
                    /\ state.routes_state.available_routes
                           = SubSeq(available, Least(qualifying) + 1, Len(available))
                    /\ state.routes_state.ignored_routes
                           = before.ignored_routes
                                 \o SubSeq(available, 1, Least(qualifying) - 1)

\* the second of three routes was returned: the first went to the ignored
\* routes, after one ignored earlier, and the third is still available
C20_Witness ==
    /\ change.type = "next_route" /\ outcome = "returned"
    /\ Len(change.routes_state.available_routes) = 3
    /\ state.route = change.routes_state.available_routes[2]
    /\ Len(state.routes_state.available_routes) = 1
    /\ Len(state.routes_state.ignored_routes) = 2

----------------------------------------------------------------------------
(* Properties of the mediator, continued *)

\* the pair a step of the mediator has appended to transfers_pair
PairAppended ==
    /\ outcome' = "returned"
    /\ state' # NoState
    /\ Len(state'.transfers_pair)
           = (IF state = NoState THEN 0 ELSE Len(state.transfers_pair)) + 1

\* C21: the payee lock of a new pair expires at block + (min(blocks until
\* settlement, payer expiration - block) - TRANSIT_BLOCKS) - payee
\* reveal_timeout; an init with the payer channel closed at a later block
\* than the current one raises.
C21_PayeeExpirationFormula ==
    [][ /\ PairAppended =>
             LET new == state'.transfers_pair[Len(state'.transfers_pair)]
                 block == state'.block_number
                 blocks_until_settlement ==
                     IF new.payer_route.close_block = NoBlock
                     THEN new.payer_route.settle_timeout
                     ELSE new.payer_route.settle_timeout
                              - (block - new.payer_route.close_block)
                 remaining == new.payer_transfer.expiration - block
                 smallest ==
                     IF blocks_until_settlement < remaining
                     THEN blocks_until_settlement ELSE remaining
             IN  new.payee_transfer.expiration
                     = block + (smallest - 2) - new.payee_route.reveal_timeout
        /\ (/\ state = NoState /\ outcome = "init"
            /\ change'.type = "ActionInitMediator"
            /\ change'.from_route.close_block # NoBlock
            /\ change'.block_number < change'.from_route.close_block)
           => (outcome' = "raised" /\ state' = NoState) ]_vars

\* a pair was built one block after the payer's channel was closed
C21_Witness ==
    /\ Live /\ outcome = "returned"
    /\ change.type = "ActionInitMediator"
    /\ Len(state.transfers_pair) = 1
    /\ state.transfers_pair[1].payer_route.close_block = 0
    /\ state.block_number = 1
    /\ state.transfers_pair[1].payer_route.settle_timeout - 1
           < state.transfers_pair[1].payer_transfer.expiration - 1

\* the payer's channel closed at a block the mediator has not reached
C21_AssertWitness ==
    /\ state = NoState /\ outcome = "raised"
    /\ change.type = "ActionInitMediator"
    /\ change.block_number < change.from_route.close_block

\* a step that ran mediate_transfer: an init, or a refund that matches the
\* last pair's payee transfer before the secret is known
Mediates ==
    /\ outcome' = "returned"
    /\ \/ state = NoState /\ outcome = "init" /\ change'.type = "ActionInitMediator"
       \/ /\ state # NoState
          /\ change'.type = "ReceiveTransferRefund"
          /\ state.secret = None
          /\ RefundMatchesTail(state, change')

\* the events the claim gives for a mediate_transfer that builds no pair
RefundExpected(refund_route, original, timeout_blocks, block) ==
    IF timeout_blocks - refund_route.reveal_timeout > 0
    THEN << [ type |-> "SendRefundTransfer",
              identifier |-> original.identifier,
              token |-> original.token,
              amount |-> original.amount,
              hashlock |-> original.hashlock,
              expiration |-> timeout_blocks - refund_route.reveal_timeout + block,
              recipient |-> refund_route.node_address ] >>
    ELSE << >>

\* C22: a mediate_transfer that appends no pair returns one SendRefundTransfer
\* to the first pair's payer (the current payer if there is no pair) when
\* timeout_blocks - its reveal_timeout > 0, and nothing otherwise.
C22_RefundWhenNoPair ==
    [][ (Mediates /\ ~PairAppended) =>
          IF state = NoState
          THEN events' = RefundExpected(
                   change'.from_route, change'.from_transfer,
                   get_timeout_blocks(change'.from_route, change'.from_transfer,
                                      change'.block_number),
                   change'.block_number)
          ELSE /\ state' # NoState
               /\ state'.transfers_pair = state.transfers_pair
               /\ events' = RefundExpected(
                      state.transfers_pair[1].payer_route,
                      state.transfers_pair[1].payer_transfer,
                      get_timeout_blocks(
                          state.transfers_pair[Len(state.transfers_pair)].payee_route,
                          change'.transfer, state.block_number),
                      state.block_number) ]_vars

\* a valid refund found no route and the original payer was refunded
C22_Witness ==
    /\ Live /\ outcome = "returned"
    /\ change.type = "ReceiveTransferRefund"
    /\ Len(events) = 1
    /\ events[1].type = "SendRefundTransfer"
    /\ events[1].recipient = PayerNode
    /\ events[1].recipient # change.sender

\* the payee sub-state of pair i when the balance proofs of a step are
\* decided: the one the step's sender has just been given if the sender is
\* the pair's payee, the one of the state before the step otherwise
PayeeStateWhenPaying(i) ==
    IF change'.sender = state.transfers_pair[i].payee_route.node_address
    THEN (IF change'.type = "ReceiveSecretReveal"
          THEN "payee_secret_revealed" ELSE "payee_contract_withdraw")
    ELSE state.transfers_pair[i].payee_state

\* pair i of the state before the step is the pair event e pays: the payee
\* is the recipient, knows the secret, is not paid, and its lock has not
\* expired
PaysPair(i, e) ==
    /\ state.transfers_pair[i].payee_route.node_address = e.recipient
    /\ state.transfers_pair[i].payee_transfer.identifier = e.identifier
    /\ PayeeStateWhenPaying(i) \in PayeeSecretKnown
    /\ PayeeStateWhenPaying(i) \notin PayeePaid
    /\ state.block_number <= state.transfers_pair[i].payee_transfer.expiration
    /\ state' # NoState =>
           state'.transfers_pair[i].payee_state = "payee_balance_proof"

\* C23: a SendBalanceProof is returned for a pair, and the payee side becomes
\* payee_balance_proof, only when the payee knows the secret, is not paid
\* yet and block_number <= the payee lock's expiration.
C23_BalanceProofOnlyWhileLockValid ==
    [][ outcome' = "returned" =>
          /\ \A k \in EventsOfType(events', "SendBalanceProof") :
               /\ state # NoState
               /\ \E i \in 1..Len(state.transfers_pair) : PaysPair(i, events'[k])
          /\ (state # NoState /\ state' # NoState
                  /\ Len(state'.transfers_pair) = Len(state.transfers_pair)) =>
               \A i \in 1..Len(state.transfers_pair) :
                   (/\ state'.transfers_pair[i].payee_state = "payee_balance_proof"
                    /\ state.transfers_pair[i].payee_state # "payee_balance_proof")
                   => \E k \in EventsOfType(events', "SendBalanceProof") :
                          PaysPair(i, events'[k]) ]_vars

\* the payee of the only pair revealed the secret and was paid
C23_Witness ==
    /\ Live /\ outcome = "returned"
    /\ change.type = "ReceiveSecretReveal"
    /\ Len(state.transfers_pair) = 1
    /\ state.transfers_pair[1].payee_state = "payee_balance_proof"
    /\ state.block_number <= state.transfers_pair[1].payee_transfer.expiration
    /\ EventsOfType(events, "SendBalanceProof") # {}

\* a reveal from the payee arrived after its lock expired: no balance proof
C23_ExpiredWitness ==
    /\ Live /\ outcome = "returned"
    /\ change.type = "ReceiveSecretReveal"
    /\ Len(state.transfers_pair) = 1
    /\ change.sender = state.transfers_pair[1].payee_route.node_address
    /\ state.transfers_pair[1].payee_state = "payee_secret_revealed"
    /\ state.block_number > state.transfers_pair[1].payee_transfer.expiration
    /\ events = << SendRevealSecret(1, "s1", PayerNode, OurAddress) >>

\* C24: a ContractReceiveWithdraw delivered to a live mediator returns in
\* either phase; a pair whose payer channel is the event's channel gets
\* payer_contract_withdraw, and with no such pair the sender's pair gets
\* payee_contract_withdraw.
C24_WithdrawHandledInBothPhases ==
    [][ (state # NoState /\ change'.type = "ContractReceiveWithdraw") =>
          /\ outcome' = "returned"
          /\ state' # NoState =>
               IF \E k \in 1..Len(state.transfers_pair) :
                      state.transfers_pair[k].payer_route.channel_address
                          = change'.channel_address
               THEN \E k \in 1..Len(state.transfers_pair) :
                      /\ state.transfers_pair[k].payer_route.channel_address
                             = change'.channel_address
                      /\ state'.transfers_pair[k].payer_state = "payer_contract_withdraw"
               ELSE /\ state'.secret # None
                    /\ \A i \in 1..Len(state.transfers_pair) :
                         state.transfers_pair[i].payee_route.node_address
                                 = change'.sender
                             => state'.transfers_pair[i].payee_state
                                    = "payee_contract_withdraw" ]_vars

\* C25: a ReceiveBalanceProof delivered once the secret is known returns no
\* events; if the state is kept, the pairs whose payer channel is the
\* event's node_address have payer_balance_proof and nothing else changed.
C25_BalanceProofFrame ==
    [][ (state # NoState /\ state.secret # None
             /\ change'.type = "ReceiveBalanceProof") =>
          /\ outcome' = "returned"
          /\ events' = << >>
          /\ state' # NoState =>
               /\ [state' EXCEPT !.transfers_pair = state.transfers_pair] = state
               /\ Len(state'.transfers_pair) = Len(state.transfers_pair)
               /\ \A i \in 1..Len(state.transfers_pair) :
                    state'.transfers_pair[i] =
                        IF state.transfers_pair[i].payer_route.channel_address
                               = change'.node_address
                        THEN [state.transfers_pair[i] EXCEPT
                                 !.payer_state = "payer_balance_proof"]
                        ELSE state.transfers_pair[i]
          /\ state' = NoState =>
               \A i \in 1..Len(state.transfers_pair) :
                    /\ state.transfers_pair[i].payee_state \in FinalSubStates
                    /\ \/ state.transfers_pair[i].payer_state \in FinalSubStates
                       \/ state.transfers_pair[i].payer_route.channel_address
                              = change'.node_address ]_vars

\* the payer of the second pair sent its balance proof; the first pair is as
\* it was
C25_Witness ==
    /\ Live /\ outcome = "returned"
    /\ change.type = "ReceiveBalanceProof"
    /\ Len(state.transfers_pair) = 2
    /\ state.transfers_pair[2].payer_route.channel_address = change.node_address
    /\ state.transfers_pair[2].payer_state = "payer_balance_proof"
    /\ state.transfers_pair[1].payer_state # "payer_balance_proof"

\* mediate_transfer re-entered with the last pair's payee_route as payer
\* route and the refund's transfer as payer transfer, once that route is in
\* routes.refund_routes
RefundAsMediation(st, state_change) ==
    finish(mediate_transfer(
        [st EXCEPT !.routes.refund_routes =
            Append(@, st.transfers_pair[Len(st.transfers_pair)].payee_route)],
        st.transfers_pair[Len(st.transfers_pair)].payee_route,
        state_change.transfer))

\* C26: a valid ReceiveTransferRefund leaves the state and the events that
\* mediate_transfer gives for the last pair's payee_route and the refund's
\* transfer, with that route appended to routes.refund_routes.
C26_RefundIsMediation ==
    [][ (/\ state # NoState
         /\ state.secret = None
         /\ state.transfers_pair # << >>
         /\ change'.type = "ReceiveTransferRefund"
         /\ RefundMatchesTail(state, change')) =>
          /\ state' = RefundAsMediation(state, change').new_state
          /\ events' = RefundAsMediation(state, change').events
          /\ (outcome' = "raised") = RefundAsMediation(state, change').raised ]_vars

\* a valid refund was mediated onwards: the refunding payee is the payer of
\* the new last pair and its route is among the refund routes
C26_Witness ==
    /\ Live /\ outcome = "returned"
    /\ change.type = "ReceiveTransferRefund"
    /\ Len(state.transfers_pair) = 2
    /\ state.transfers_pair[2].payer_transfer = change.transfer
    /\ state.transfers_pair[2].payer_route = state.transfers_pair[1].payee_route
    /\ state.routes.refund_routes = <<state.transfers_pair[1].payee_route>>
    /\ EventsOfType(events, "SendMediatedTransfer") # {}

----------------------------------------------------------------------------
(* dependencies_order_of_build on its own: `change` holds the arguments of
   one call, `state` the list it returned or the exception it raised *)

\* the contracts of a compilation
Contracts == {"Token", "Registry", "Manager", "Library"}

Range(list) == {list[k] : k \in 1..Len(list)}

\* the lists naming every contract of S once
RECURSIVE Orderings(_)
Orderings(S) ==
    IF S = {} THEN {<< >>}
    ELSE UNION { {<<c>> \o l : l \in Orderings(S \ {c})} : c \in S }

\* the dependency lists a contract can have among the contracts of S
DependencyLists(S) == UNION { Orderings(T) : T \in SUBSET S }

\* map with the entry of one more contract
WithEntry(map, contract, dependencies) ==
    [c \in DOMAIN map \cup {contract} |->
        IF c = contract THEN dependencies ELSE map[c]]

\* the maps giving each contract of `rest` a list of other contracts of D
RECURSIVE MapsOver(_, _)
MapsOver(D, rest) ==
    IF rest = {} THEN {<< >>}
    ELSE LET contract == CHOOSE c \in rest : TRUE
         IN  { WithEntry(pm[1], contract, pm[2]) :
                 pm \in MapsOver(D, rest \ {contract})
                            \X DependencyLists(D \ {contract}) }

\* the contracts reached from S in at most n steps along the dependencies
RECURSIVE Closure(_, _, _)
Closure(map, S, n) ==
    IF n = 0 THEN S
    ELSE Closure(map, S \cup UNION {Range(map[c]) : c \in S}, n - 1)

\* the transitive dependencies of a contract
TransitiveDependencies(map, contract) ==
    Closure(map, Range(map[contract]), Cardinality(DOMAIN map))

Acyclic(map) == \A c \in DOMAIN map : c \notin TransitiveDependencies(map, c)

\* the dependencies_map of a compilation: an entry for each of its
\* contracts, naming contracts of the same compilation, without a cycle
DependencyMaps ==
    UNION { {map \in MapsOver(D, D) : Acyclic(map)} : D \in SUBSET Contracts }

\* list.index(item)
index(list, item) == CHOOSE k \in 1..Len(list) :
    list[k] = item /\ \A j \in 1..(k - 1) : list[j] # item

\* list.insert(position, item), positions counted from 0
insert(list, position, item) ==
    SubSeq(list, 1, position) \o <<item>> \o SubSeq(list, position + 1, Len(list))

RECURSIVE reverse(_)
reverse(list) ==
    IF list = << >> THEN << >> ELSE Append(reverse(Tail(list)), Head(list))

\* the for loop over the dependencies of the contract taken from todo, from
\* the k-th dependency on
RECURSIVE scan_dependencies(_, _, _, _, _)
scan_dependencies(dependencies, k, order, todo, target_pos) ==
    IF k > Len(dependencies)
    THEN [target_pos |-> target_pos, todo |-> todo]
    ELSE IF dependencies[k] \in Range(order)
    THEN scan_dependencies(dependencies, k + 1, order, todo,
                           index(order, dependencies[k]) - 1)
    ELSE scan_dependencies(dependencies, k + 1, order,
                           Append(todo, dependencies[k]), target_pos)

\* the while loop of dependencies_order_of_build
RECURSIVE build_order(_, _, _)

\* order.insert(target_pos, target_contract), then the next round
build_order_insert(dependencies_map, order, target_contract, scanned) ==
    build_order(dependencies_map,
                insert(order, scanned.target_pos, target_contract),
                scanned.todo)

build_order(dependencies_map, order, todo) ==
    IF todo = << >> THEN order
    ELSE build_order_insert(dependencies_map, order, Head(todo),
             scan_dependencies(dependencies_map[Head(todo)], 1, order,
                               Tail(todo), Len(order)))

dependencies_order_of_build(target_contract, dependencies_map) ==
    IF DOMAIN dependencies_map = {}
    THEN [raised |-> FALSE, order |-> <<target_contract>>]
    ELSE IF target_contract \notin DOMAIN dependencies_map
    THEN [raised |-> TRUE, order |-> << >>]
    ELSE [raised |-> FALSE,
          order |-> reverse(build_order(dependencies_map, <<target_contract>>,
                                        dependencies_map[target_contract]))]

OrderOfBuildCalls ==
    { [ type |-> "dependencies_order_of_build",
        target_contract |-> target,
        dependencies_map |-> map ] :
        target \in Contracts, map \in DependencyMaps }

InitOrderOfBuild ==
    /\ state = NoState
    /\ events = << >>
    /\ outcome = "init"
    /\ change \in OrderOfBuildCalls

CallOrderOfBuild ==
    /\ outcome = "init"
    /\ state' = dependencies_order_of_build(change.target_contract,
                                            change.dependencies_map)
    /\ outcome' = IF state'.raised THEN "raised" ELSE "returned"
    /\ UNCHANGED <<events, change>>

NextOrderOfBuild == CallOrderOfBuild

SpecOrderOfBuild == InitOrderOfBuild /\ [][NextOrderOfBuild]_vars

\* the call returned a list for a target the map has an entry for
OrderBuilt ==
    /\ change.type = "dependencies_order_of_build"
    /\ outcome = "returned"
    /\ change.target_contract \in DOMAIN change.dependencies_map

OrderEndsWithTarget == state.order[Len(state.order)] = change.target_contract

OrderHasDependencies ==
    TransitiveDependencies(change.dependencies_map, change.target_contract)
        \subseteq Range(state.order)

OrderHasNoRepeat ==
    \A i, j \in 1..Len(state.order) : state.order[i] = state.order[j] => i = j

OrderDeploysDependenciesFirst ==
    \A i \in 1..Len(state.order) :
        \A d \in Range(change.dependencies_map[state.order[i]]) :
            \E j \in 1..(i - 1) : state.order[j] = d

\* C27: for an acyclic dependencies_map the returned list ends with the
\* target, holds every transitive dependency of the target, holds no contract
\* twice and has every contract after all the contracts it depends on.
C27_OrderOfBuild ==
    OrderBuilt =>
        /\ OrderEndsWithTarget
        /\ OrderHasDependencies
        /\ OrderHasNoRepeat
        /\ OrderDeploysDependenciesFirst

----------------------------------------------------------------------------
(* Properties of the mediator: payments and withdraws over time *)

\* the last block at which pair may be paid with the payer lock still
\* claimable
LastSafePayment(pair) ==
    pair.payer_transfer.expiration - pair.payee_route.reveal_timeout - TRANSIT_BLOCKS

\* C28: when a SendBalanceProof is returned for a pair, block_number <=
\* payer_transfer.expiration - payee_route.reveal_timeout - TRANSIT_BLOCKS.
C28_PaidWithPayerLockMargin ==
    [][ outcome' = "returned" =>
          \A k \in EventsOfType(events', "SendBalanceProof") :
              /\ state # NoState
              /\ \E i \in 1..Len(state.transfers_pair) :
                     state.transfers_pair[i].payee_route.node_address
                         = events'[k].recipient
              /\ \A i \in 1..Len(state.transfers_pair) :
                     state.transfers_pair[i].payee_route.node_address
                             = events'[k].recipient
                         => state.block_number
                                <= LastSafePayment(state.transfers_pair[i]) ]_vars

\* a payee was paid at the last block of its lock, which is the last safe
\* block for the payer lock
C28_Witness ==
    /\ Live /\ outcome = "returned"
    /\ \E k \in EventsOfType(events, "SendBalanceProof") :
         \E i \in 1..Len(state.transfers_pair) :
             /\ state.transfers_pair[i].payee_route.node_address = events[k].recipient
             /\ state.transfers_pair[i].payee_state = "payee_balance_proof"
             /\ state.block_number = LastSafePayment(state.transfers_pair[i])
             /\ state.block_number > 0

\* C29: once a pair's payee side is payee_balance_proof, no later step
\* returns a SendBalanceProof for that pair's payee.
C29_BalanceProofOnce ==
    [][ (state # NoState /\ outcome' = "returned") =>
          \A i \in 1..Len(state.transfers_pair) :
              state.transfers_pair[i].payee_state = "payee_balance_proof" =>
                  \A k \in EventsOfType(events', "SendBalanceProof") :
                      events'[k].recipient
                          # state.transfers_pair[i].payee_route.node_address ]_vars

\* a ContractSendWithdraw or a SendRevealSecret of evs is for this pair's
\* payer side
PayerSideEvents(pair, evs) ==
    { k \in 1..Len(evs) :
        \/ /\ evs[k].type = "ContractSendWithdraw"
           /\ evs[k].channel_address = pair.payer_route.channel_address
        \/ /\ evs[k].type = "SendRevealSecret"
           /\ evs[k].recipient = pair.payer_route.node_address }

\* C30: once a pair's payer side is payer_waiting_withdraw, a later Block or
\* secret event returns no ContractSendWithdraw and no SendRevealSecret for
\* that pair and does not move the payer side back.
C30_WithdrawOnce ==
    [][ (/\ state # NoState
         /\ outcome' = "returned"
         /\ change'.type \in {"Block", "ReceiveSecretReveal",
                              "ContractReceiveWithdraw"}) =>
          \A i \in 1..Len(state.transfers_pair) :
              state.transfers_pair[i].payer_state = "payer_waiting_withdraw" =>
                  /\ PayerSideEvents(state.transfers_pair[i], events') = {}
                  /\ state' # NoState =>
                       state'.transfers_pair[i].payer_state
                           \in {"payer_waiting_withdraw", "payer_contract_withdraw"} ]_vars

\* C31: a payee side or a payer side that is paid before a step is paid
\* after it.
C31_PaidStaysPaid ==
    [][ (/\ state # NoState /\ state' # NoState
         /\ outcome' = "returned"
         /\ Len(state'.transfers_pair) >= Len(state.transfers_pair)) =>
          \A i \in 1..Len(state.transfers_pair) :
              /\ state.transfers_pair[i].payee_state \in PayeePaid =>
                     state'.transfers_pair[i].payee_state \in PayeePaid
              /\ state.transfers_pair[i].payer_state \in PayerPaid =>
                     state'.transfers_pair[i].payer_state \in PayerPaid ]_vars

\* the refund event leaves the original payer the margin to reveal, and its
\* lock is still ahead of the block
RefundLockSafe(refund, original_route, original_transfer, block) ==
    /\ refund.expiration < original_transfer.expiration
    /\ refund.expiration + TRANSIT_BLOCKS + original_route.reveal_timeout
           <= original_transfer.expiration
    /\ refund.expiration > block

\* C32: every SendRefundTransfer returned expires before the original payer
\* transfer (the first pair's, or the init transfer when there is no pair) by
\* at least TRANSIT_BLOCKS + refund_route.reveal_timeout, and after the
\* current block.
C32_RefundLockWithinOriginal ==
    [][ outcome' = "returned" =>
          \A k \in EventsOfType(events', "SendRefundTransfer") :
              IF state = NoState
              THEN /\ change'.type = "ActionInitMediator"
                   /\ RefundLockSafe(events'[k], change'.from_route,
                                     change'.from_transfer, change'.block_number)
              ELSE /\ state.transfers_pair # << >>
                   /\ RefundLockSafe(events'[k],
                                     state.transfers_pair[1].payer_route,
                                     state.transfers_pair[1].payer_transfer,
                                     state.block_number) ]_vars

\* a refund came back from the payee and was passed on to the original
\* payer, with a lock between the block and the original's expiration
C32_Witness ==
    /\ Live /\ outcome = "returned"
    /\ change.type = "ReceiveTransferRefund"
    /\ \E k \in EventsOfType(events, "SendRefundTransfer") :
         /\ events[k].recipient = state.transfers_pair[1].payer_route.node_address
         /\ events[k].expiration > state.block_number
         /\ events[k].expiration < change.transfer.expiration
         /\ change.transfer.expiration < state.transfers_pair[1].payer_transfer.expiration

\* with no route at init the refund lock ends exactly TRANSIT_BLOCKS +
\* reveal_timeout before the init transfer's
C32_InitWitness ==
    /\ state = NoState /\ outcome = "returned"
    /\ change.type = "ActionInitMediator"
    /\ \E k \in EventsOfType(events, "SendRefundTransfer") :
         events[k].expiration + TRANSIT_BLOCKS + change.from_route.reveal_timeout
             = change.from_transfer.expiration

\* the two transfers are the same payment
SamePayment(a, b) ==
    /\ a.identifier = b.identifier
    /\ a.amount = b.amount
    /\ a.target = b.target
    /\ a.hashlock = b.hashlock

\* every transfer of every pair of st is the payment of the first pair's
\* payer transfer, locked with st.hashlock
PairsCarryOnePayment(st) ==
    \A i \in 1..Len(st.transfers_pair) :
        /\ SamePayment(st.transfers_pair[i].payer_transfer,
                       st.transfers_pair[1].payer_transfer)
        /\ SamePayment(st.transfers_pair[i].payee_transfer,
                       st.transfers_pair[1].payer_transfer)
        /\ st.transfers_pair[i].payee_transfer.hashlock = st.hashlock

\* no two pairs of st have the same payee route
PayeeRoutesDistinct(st) ==
    \A i, j \in 1..Len(st.transfers_pair) :
        st.transfers_pair[i].payee_route.node_address
            = st.transfers_pair[j].payee_route.node_address => i = j

\* the pairs and the routes still available, counted together
RoutesAccounted(st) == Len(st.transfers_pair) + Len(st.routes.available_routes)

\* C33: the first pair's payer transfer is the transfer of ActionInitMediator;
\* in every state every transfer of every pair has its identifier, amount,
\* target and hashlock, which is state.hashlock; no two pairs share a payee
\* route, and pairs and available routes together never outnumber the routes
\* given at ActionInitMediator.
C33_OnePaymentOneRoutePerPair ==
    [][ (outcome' = "returned" /\ state' # NoState) =>
          /\ PairsCarryOnePayment(state')
          /\ PayeeRoutesDistinct(state')
          /\ IF state = NoState
             THEN /\ state'.transfers_pair[1].payer_transfer = change'.from_transfer
                  /\ state'.hashlock = change'.from_transfer.hashlock
                  /\ RoutesAccounted(state')
                         <= Len(change'.routes.available_routes)
             ELSE /\ state'.transfers_pair[1].payer_transfer.identifier
                         = state.transfers_pair[1].payer_transfer.identifier
                  /\ state'.hashlock = state.hashlock
                  /\ RoutesAccounted(state') <= RoutesAccounted(state) ]_vars

\* a refund was mediated onwards over the last of the routes given: two
\* pairs over two routes, both for the payment of the first
C33_Witness ==
    /\ Live /\ outcome = "returned"
    /\ change.type = "ReceiveTransferRefund"
    /\ Len(state.transfers_pair) = 2
    /\ state.routes.available_routes = << >>
    /\ state.routes.ignored_routes = << >>
    /\ state.transfers_pair[2].payee_transfer.expiration
           < state.transfers_pair[1].payee_transfer.expiration
    /\ PairsCarryOnePayment(state)
    /\ PayeeRoutesDistinct(state)

----------------------------------------------------------------------------
(* JSONRPCClient.nonce under concurrent callers: `state` holds the client's
   nonce fields and the holder of nonce_lock, `change` each caller's position
   and the locals of nonce_update_from_node, `events` the values returned, in
   the order of return *)

Callers == {"c1", "c2", "c3"}

\* the calls of nonce() made in one run
MaxNonceCalls == 4

\* the largest transaction count the node reports
MaxPending == 3

\* the largest nonce_offset a client is built with
MaxOffset == 1

\* nonce_available_value before the first update
NoNonce == -3

NoCaller == "free"

\* nonce_needs_update, `interval_elapsed` standing for the two clock tests
nonce_needs_update(nonce_available_value, interval_elapsed) ==
    IF nonce_available_value = NoNonce THEN TRUE ELSE interval_elapsed

\* self.nonce_available_value or -1
available_or_default(nonce_available_value) ==
    IF nonce_available_value = NoNonce \/ nonce_available_value = 0
    THEN -1
    ELSE nonce_available_value

\* the loop of nonce_update_from_node ends at the first answer of the node
loop_ends_at_once(nonce, nonce_available_value) == nonce # -2

\* the loop of nonce_update_from_node ends
loop_ends(nonce, nonce_available_value) == ~(nonce < nonce_available_value)

InitNonce ==
    /\ state \in { [ nonce_available_value |-> NoNonce,
                     nonce_offset |-> offset,
                     nonce_lock |-> NoCaller ] : offset \in 0..MaxOffset }
    /\ events = << >>
    /\ outcome = "init"
    /\ change = [ type |-> "nonce",
                  pc |-> [c \in Callers |-> "idle"],
                  calls |-> 0,
                  nonce |-> -2,
                  nonce_available_value |-> -1 ]

\* a caller enters nonce() and waits for nonce_lock
CallNonce(c) ==
    /\ change.type = "nonce"
    /\ change.pc[c] = "idle"
    /\ change.calls < MaxNonceCalls
    /\ change' = [change EXCEPT !.pc[c] = "waiting", !.calls = @ + 1]
    /\ UNCHANGED <<state, events, outcome>>

\* with self.nonce_lock
AcquireNonceLock(c) ==
    /\ change.type = "nonce"
    /\ change.pc[c] = "waiting"
    /\ state.nonce_lock = NoCaller
    /\ state' = [state EXCEPT !.nonce_lock = c]
    /\ change' = [change EXCEPT !.pc[c] = "locked"]
    /\ UNCHANGED <<events, outcome>>

\* if self.nonce_needs_update(), and the first two lines of
\* nonce_update_from_node
CheckNonce(c) ==
    /\ change.type = "nonce"
    /\ change.pc[c] = "locked"
    /\ \E interval_elapsed \in BOOLEAN :
         IF nonce_needs_update(state.nonce_available_value, interval_elapsed)
         THEN change' = [change EXCEPT
                            !.pc[c] = "updating",
                            !.nonce = -2,
                            !.nonce_available_value =
                                available_or_default(state.nonce_available_value)]
         ELSE change' = [change EXCEPT !.pc[c] = "ready"]
    /\ UNCHANGED <<state, events, outcome>>

\* one round of the while loop: the node answers with a transaction count
PollNode(c) ==
    /\ change.type = "nonce"
    /\ change.pc[c] = "updating"
    /\ ~loop_ends(change.nonce, change.nonce_available_value)
    /\ \E pending_transactions \in 0..MaxPending :
         change' = [change EXCEPT !.nonce = pending_transactions + state.nonce_offset]
    /\ UNCHANGED <<state, events, outcome>>

\* the loop is over: self.nonce_available_value = nonce
InstallNonce(c) ==
    /\ change.type = "nonce"
    /\ change.pc[c] = "updating"
    /\ loop_ends(change.nonce, change.nonce_available_value)
    /\ state' = [state EXCEPT !.nonce_available_value = change.nonce]
    /\ change' = [change EXCEPT !.pc[c] = "ready"]
    /\ UNCHANGED <<events, outcome>>

\* self.nonce_available_value += 1, the return and the release of the lock
ReturnNonce(c) ==
    /\ change.type = "nonce"
    /\ change.pc[c] = "ready"
    /\ state' = [state EXCEPT !.nonce_available_value = @ + 1,
                              !.nonce_lock = NoCaller]
    /\ events' = Append(events, state.nonce_available_value)
    /\ outcome' = "returned"
    /\ change' = [change EXCEPT !.pc[c] = "idle"]

NextNonce ==
    \/ \E c \in Callers : CallNonce(c)
    \/ \E c \in Callers : AcquireNonceLock(c)
    \/ \E c \in Callers : CheckNonce(c)
    \/ \E c \in Callers : PollNode(c)
    \/ \E c \in Callers : InstallNonce(c)
    \/ \E c \in Callers : ReturnNonce(c)

SpecNonce == InitNonce /\ [][NextNonce]_vars

\* the values returned so far grow strictly, in the order of return
NoncesIncrease(returned) ==
    \A i, j \in 1..Len(returned) : i < j => returned[i] < returned[j]

\* C34: the values nonce() returns are strictly increasing in the order the
\* calls held nonce_lock, hence pairwise distinct; at most one caller is
\* inside the lock; an update from the node never lowers
\* nonce_available_value.
C34_NoncesDistinctAndIncreasing ==
    [][ change'.type = "nonce" =>
          /\ NoncesIncrease(events')
          /\ \A c, d \in Callers :
                 (change'.pc[c] \in {"locked", "updating", "ready"}
                      /\ change'.pc[d] \in {"locked", "updating", "ready"}) => c = d
          /\ (state.nonce_available_value # NoNonce) =>
                 state'.nonce_available_value >= state.nonce_available_value ]_vars

\* three calls returned three nonces, the last after an update from the node
\* that skipped values, while another caller waits for the lock
C34_Witness ==
    /\ change.type = "nonce"
    /\ Len(events) = 3
    /\ events[3] > events[2] + 1
    /\ state.nonce_lock = NoCaller
    /\ \E c \in Callers : change.pc[c] = "waiting"

====
